---- MODULE Spec2Model ----
(***************************************************************************)
(* Model of the revised simplex solver (fel_simplex/revised_simplex.py),   *)
(* of the problem builder (fel_simplex/fel_utils.py) and of the callers of *)
(* solve (fel_simplex/optimal_poly.py).                                    *)
(*                                                                         *)
(* Numbers are exact rationals <<numerator, denominator>> in lowest terms  *)
(* with a positive denominator: the arbitrary-precision backend (mpmath)   *)
(* is modelled as exact arithmetic.  <<1, 0>> stands for mp.inf.  Python's *)
(* None is the string "None".  Column indices are 0-based as in the code;  *)
(* sequences are 1-based, so column j of a matrix row is row[j + 1].       *)
(***************************************************************************)
EXTENDS Integers, Sequences, FiniteSets, TLC

(***************************************************************************)
(* Exact rational arithmetic (mpmath's mpf +, -, *, /, <, >).              *)
(***************************************************************************)
Abs(k) == IF k < 0 THEN -k ELSE k

RECURSIVE GCD(_, _)
GCD(a, b) == IF b = 0 THEN a ELSE GCD(b, a % b)

Norm(p, q) ==
    LET g == GCD(Abs(p), Abs(q))
        s == IF q < 0 THEN -1 ELSE 1
    IN  <<(s * p) \div g, (s * q) \div g>>

R(k) == <<k, 1>>

Zero == <<0, 1>>

One == <<1, 1>>

Inf == <<1, 0>>

RAdd(x, y) == Norm(x[1] * y[2] + y[1] * x[2], x[2] * y[2])

RSub(x, y) == Norm(x[1] * y[2] - y[1] * x[2], x[2] * y[2])

RNeg(x) == <<-x[1], x[2]>>

RMul(x, y) == Norm(x[1] * y[1], x[2] * y[2])

RDiv(x, y) == Norm(x[1] * y[2], x[2] * y[1])

RLt(x, y) == x[1] * y[2] < y[1] * x[2]

RLe(x, y) == x[1] * y[2] <= y[1] * x[2]

RECURSIVE RPow(_, _)
RPow(x, k) == IF k = 0 THEN One ELSE RMul(x, RPow(x, k - 1))

(***************************************************************************)
(* Dense matrices (mpmath.matrix): a sequence of rows; a column vector is  *)
(* a sequence of numbers.                                                  *)
(***************************************************************************)
(* a sequence given by a rule, built element by element *)
List(f) == f \o << >>

RECURSIVE SumTo(_, _)
SumTo(term, k) == IF k = 0 THEN Zero ELSE RAdd(SumTo(term, k - 1), term[k])

Dot(u, v) == SumTo(List([k \in 1..Len(u) |-> RMul(u[k], v[k])]), Len(u))

MatVec(M, v) == List([i \in 1..Len(M) |-> Dot(M[i], v)])

VecMat(v, M, cols) ==
    List([j \in 1..cols |->
            SumTo(List([k \in 1..Len(v) |-> RMul(v[k], M[k][j])]), Len(v))])

Column(M, j) == List([i \in 1..Len(M) |-> M[i][j + 1]])

ScaleVec(k, v) == List([i \in 1..Len(v) |-> RMul(R(k), v[i])])

ScaleMat(k, M) == List([i \in 1..Len(M) |-> ScaleVec(k, M[i])])

EyeRow(i, m) == List([j \in 1..m |-> IF i = j THEN One ELSE Zero])

MinOf(S) == CHOOSE x \in S : \A y \in S : x <= y

(* Gauss-Jordan elimination of the m x 2m matrix [B | I], column k onward; *)
(* << >> when no pivot is left (the matrix is singular).                   *)
RECURSIVE GaussJordan(_, _, _)
GaussJordan(M, k, m) ==
    IF k > m THEN M
    ELSE LET piv == {r \in k..m : M[r][k][1] # 0}
         IN  IF piv = {} THEN << >>
             ELSE LET p == MinOf(piv)
                      sw == [M EXCEPT ![k] = M[p], ![p] = M[k]]
                      nr == List([j \in 1..(2 * m) |-> RDiv(sw[k][j], sw[k][k])])
                      el == List([i \in 1..m |->
                               IF i = k THEN nr
                               ELSE List([j \in 1..(2 * m) |->
                                       RSub(sw[i][j], RMul(sw[i][k], nr[j]))])])
                  IN  GaussJordan(el, k + 1, m)

(* B ** -1; << >> stands for mpmath's ZeroDivisionError on a singular B.   *)
Inverse(B) ==
    LET m == Len(B)
        aug == List([i \in 1..m |-> B[i] \o EyeRow(i, m)])
        gj == GaussJordan(aug, 1, m)
    IN  IF gj = << >> THEN << >>
        ELSE List([i \in 1..m |-> SubSeq(gj[i], m + 1, 2 * m)])

(***************************************************************************)
(* Bounds of the model and constants of the program.                       *)
(***************************************************************************)
MaxRhs == 2

MaxIterCap == 2

MaxNum == 2

DefaultPrecision == 50

DefaultMaxIterations == 1000

None == << >>

(***************************************************************************)
(* RevisedSimplex: construction.                                           *)
(***************************************************************************)
Rows(A) == Len(A)

Cols(A) == Len(A[1])

(* (new_A, new_c): each column j is followed, n places on, by its negation *)
transform_unrestricted(A, c) ==
    LET nn == Cols(A)
    IN  << List([i \in 1..Rows(A) |->
              List([j \in 1..(2 * nn) |->
                  IF j <= nn THEN A[i][j] ELSE RNeg(A[i][j - nn])])]),
           List([j \in 1..(2 * nn) |-> IF j <= nn THEN c[j] ELSE RNeg(c[j - nn])]) >>

(* (augmented_matrix, new_c): an identity block and zero costs appended *)
add_slack_variables(sA, sc) ==
    LET mm == Rows(sA)
    IN  << List([i \in 1..mm |-> sA[i] \o EyeRow(i, mm)]),
           sc \o [i \in 1..mm |-> Zero] >>

InitialBasis(sA) == List([i \in 1..Rows(sA) |-> Cols(sA) + i - 1])

InitialNonbasis(sA) == List([j \in 1..Cols(sA) |-> j - 1])

(***************************************************************************)
(* RevisedSimplex: the steps of one iteration, as functions of the fields. *)
(***************************************************************************)
get_basis_inverse(aug, bas) ==
    Inverse(List([i \in 1..Len(bas) |->
                    List([j \in 1..Len(bas) |-> aug[i][bas[j] + 1]])]))

(* the list of (variable_index, reduced_cost) pairs, in nonbasis order *)
compute_reduced_costs(B_inv, aug, cost, bas, nonbas) ==
    LET c_B == List([j \in 1..Len(bas) |-> cost[bas[j] + 1]])
        y_T == VecMat(c_B, B_inv, Len(bas))
    IN  List([k \in 1..Len(nonbas) |->
            << nonbas[k],
               RSub(cost[nonbas[k] + 1], Dot(y_T, Column(aug, nonbas[k]))) >>])

(* the comparison written with <=: a later equal cost replaces *)
ImprovesOrTies(rc, best) == RLe(rc, best)

(* the strict comparison of the scan: a later equal cost does not replace *)
Improves(rc, best) == RLt(rc, best)

(* (entering_var, min_reduced_cost) after scanning the first k pairs *)
RECURSIVE EnteringScan(_, _)
EnteringScan(rcs, k) ==
    IF k = 0 THEN <<None, Inf>>
    ELSE LET prev == EnteringScan(rcs, k - 1)
         IN  IF Improves(rcs[k][2], prev[2])
             THEN << <<rcs[k][1]>>, rcs[k][2] >>
             ELSE prev

get_entering_variable(rcs) == EnteringScan(rcs, Len(rcs))

RECURSIVE Pow10(_)
Pow10(k) == IF k = 0 THEN 1 ELSE 10 * Pow10(k - 1)

(* the exponent of the tolerance 1e-int(dps * 0.5) *)
ToleranceExponent(dps) == dps \div 2

(* x >= -10^-k.  -p * 10^k <= q is decided as -p <= q \div 10^k; beyond    *)
(* 10^9 the quotient of a machine-sized denominator is 0.                  *)
GeNegTolerance(x, k) ==
    \/ x[1] >= 0
    \/ /\ k <= 9
       /\ -x[1] <= x[2] \div Pow10(k)

IsOptimal(min_rc, dps) == GeNegTolerance(min_rc, ToleranceExponent(dps))

Direction(B_inv, aug, enter) == MatVec(B_inv, Column(aug, enter))

(* the test written for the rows with d_i < 0 *)
EligibleNegative(di) == RLt(di, Zero)

(* the rows that take part in the ratio test *)
Eligible(di) == RLt(Zero, di)

(* the list of (basis index, ratio) pairs of rows 1..k with d_i > 0 *)
RECURSIVE Ratios(_, _, _, _)
Ratios(d, b_bar, bas, k) ==
    IF k = 0 THEN << >>
    ELSE IF Eligible(d[k])
         THEN Append(Ratios(d, b_bar, bas, k - 1), <<bas[k], RDiv(b_bar[k], d[k])>>)
         ELSE Ratios(d, b_bar, bas, k - 1)

(* the last pair with the least ratio *)
RECURSIVE MaxByRatio(_, _)
MaxByRatio(rs, k) ==
    IF k = 1 THEN rs[1]
    ELSE LET prev == MaxByRatio(rs, k - 1)
         IN  IF RLt(prev[2], rs[k][2]) THEN rs[k] ELSE prev

RECURSIVE LastMinByRatio(_, _)
LastMinByRatio(rs, k) ==
    IF k = 1 THEN rs[1]
    ELSE LET prev == LastMinByRatio(rs, k - 1)
         IN  IF RLe(rs[k][2], prev[2]) THEN rs[k] ELSE prev

(* Python's min(ratios, key=...): the first pair with the least ratio *)
RECURSIVE MinByRatio(_, _)
MinByRatio(rs, k) ==
    IF k = 1 THEN rs[1]
    ELSE LET prev == MinByRatio(rs, k - 1)
         IN  IF RLt(rs[k][2], prev[2]) THEN rs[k] ELSE prev

(* (leaving_var, max_ratio), (None, None) when no row is eligible *)
get_leaving_variable(B_inv, aug, rhs, bas, enter) ==
    LET d == Direction(B_inv, aug, enter)
        b_bar == MatVec(B_inv, rhs)
        ratios == Ratios(d, b_bar, bas, Len(bas))
    IN  IF ratios = << >> THEN <<None, None>>
        ELSE LET best == MinByRatio(ratios, Len(ratios))
             IN  << <<best[1]>>, best[2] >>

IndexOf(seq, x) == MinOf({i \in 1..Len(seq) : seq[i] = x})

RemoveFirst(seq, x) ==
    LET i == IndexOf(seq, x)
    IN  SubSeq(seq, 1, i - 1) \o SubSeq(seq, i + 1, Len(seq))

(* the swap without the removal of the entering index from nonbasis *)
update_basis_no_remove(bas, nonbas, enter, leave) ==
    << [bas EXCEPT ![IndexOf(bas, leave)] = enter], Append(nonbas, leave) >>

(* the swap with the entering index appended to basis *)
update_basis_append(bas, nonbas, enter, leave) ==
    << Append(RemoveFirst(bas, leave), enter),
       Append(RemoveFirst(nonbas, enter), leave) >>

(* (basis, nonbasis) after the swap *)
update_basis(bas, nonbas, enter, leave) ==
    << [bas EXCEPT ![IndexOf(bas, leave)] = enter],
       Append(RemoveFirst(nonbas, enter), leave) >>

(* the full-length solution: basic variables from B_inv * b, the others 0 *)
get_solution(B_inv, rhs, bas, cost) ==
    LET b_star == MatVec(B_inv, rhs)
    IN  List([j \in 1..Len(cost) |->
            IF \E i \in 1..Len(bas) : bas[i] = j - 1
            THEN b_star[CHOOSE i \in 1..Len(bas) : bas[i] = j - 1]
            ELSE Zero])

(* (original_solution, original_c) *)
get_original_solution(x, cost, nn) ==
    << List([i \in 1..nn |-> RSub(x[i], x[nn + i])]),
       SubSeq(cost, 1, nn) >>

(***************************************************************************)
(* SimplexProblemSetup: the builder of the approximation problem.          *)
(***************************************************************************)
(* point_i = start + i * (end - start) / (num - 1), i = 0..num-1; num > 1 *)
f_linspace(start, end, num) ==
    List([k \in 1..num |->
        RAdd(R(start), RDiv(RMul(R(k - 1), RSub(R(end), R(start))), R(num - 1)))])

(* 2m x (n+2): [omega_sup, 1, p, .., p^n] above [omega_inf, -1, -p, .., -p^n] *)
construct_matrix(deg, points, omega_sup, omega_inf) ==
    LET mm == Len(points)
    IN  List([i \in 1..(2 * mm) |->
            List([j \in 1..(deg + 2) |->
                IF i <= mm
                THEN IF j = 1 THEN R(omega_sup)
                     ELSE IF j = 2 THEN One
                     ELSE RPow(points[i], j - 2)
                ELSE IF j = 1 THEN R(omega_inf)
                     ELSE IF j = 2 THEN RNeg(One)
                     ELSE RNeg(RPow(points[i - mm], j - 2))])])

(* b_i = f(point_i), b_(i+m) = -f(point_i); fv lists f at the points *)
construct_vector_b(fv, points) ==
    LET mm == Len(points)
    IN  List([i \in 1..(2 * mm) |->
            IF i <= mm THEN R(fv[i]) ELSE RNeg(R(fv[i - mm]))])

construct_vector_c(deg) ==
    List([j \in 1..(deg + 2) |-> IF j = 1 THEN One ELSE Zero])

(* the A, b, c that get_coefs hands to RevisedSimplex *)
BuilderA(deg, points, omega_sup, omega_inf) ==
    ScaleMat(0 - 1, construct_matrix(deg, points, omega_sup, omega_inf))

BuilderB(fv, points) == ScaleVec(0 - 1, construct_vector_b(fv, points))

Reverse(seq) == List([i \in 1..Len(seq) |-> seq[Len(seq) + 1 - i]])

(***************************************************************************)
(* Inputs.                                                                 *)
(***************************************************************************)
CoefVals == {0 - 1, 0, 1}

RhsVals == (0 - 1)..MaxRhs

RowCounts == {1, 2}

ColCounts == {1, 2}

Precisions == {1, DefaultPrecision}

FVals == {0 - 1, 0, 1}

Degrees == {0, 1}

Intervals == {<<0, 1>>, <<0, 3>>}

OmegaVals == {0, 1}

IntVec(len, vals) == [1..len -> vals]

IntMat(rows, cols, vals) == [1..rows -> [1..cols -> vals]]

ToR(v) == List([i \in 1..Len(v) |-> R(v[i])])

ToRMat(M) == List([i \in 1..Len(M) |-> ToR(M[i])])

(* the bounded LP of section 8 of the specification, and the LP of the     *)
(* driver fel_simplex/main.py: <<A, b, c>>                                 *)
Scenario1 == << <<<<1, 0 - 1>>, <<1, 1>>>>, <<2, 6>>, <<0 - 2, 0 - 1>> >>

DriverLP == << <<<<2, 0 - 1, 1>>, <<0 - 1, 0 - 2, 1>>>>, <<10, 4>>, <<0 - 3, 2, 0 - 1>> >>

Scenarios == {Scenario1, DriverLP}

(***************************************************************************)
(* State.                                                                  *)
(***************************************************************************)
VARIABLES
    pc,               \* position of the program
    caller,           \* who constructed the solver: "client", "script", "get_coefs"
    mp_dps,           \* mp.mp.dps, the process-wide working precision
    precision_arg,    \* the precision given to RevisedSimplex.__init__
    original_A, b, original_c, m, n,         \* RevisedSimplex fields
    augmented_matrix, new_c, basis, nonbasis,
    max_iterations, iteration,               \* solve: argument and locals
    B_inv, entering_var, min_reduced_cost, leaving_var,
    tolerance,        \* solve's tolerance 10^-k, held as <<k>>
    result,           \* the tuple solve returned
    exception,        \* the exception that ended the program, or "none"
    solution, objective_value, it, status, x \* OptimalPolynomial fields

lpVars == <<precision_arg, original_A, b, original_c, m, n, augmented_matrix, new_c>>

loopVars == <<iteration, B_inv, entering_var, min_reduced_cost, leaving_var,
             tolerance>>

polyVars == <<solution, objective_value, it, status, x>>

vars == <<pc, caller, mp_dps, lpVars, basis, nonbasis, max_iterations, loopVars,
          result, exception, polyVars>>

Init ==
    /\ pc = "start"
    /\ caller = "none"
    /\ mp_dps = 15
    /\ precision_arg = 0
    /\ original_A = None /\ b = None /\ original_c = None
    /\ m = 0 /\ n = 0
    /\ augmented_matrix = None /\ new_c = None
    /\ basis = None /\ nonbasis = None
    /\ max_iterations = 0 /\ iteration = 0
    /\ B_inv = None
    /\ entering_var = None /\ min_reduced_cost = None /\ leaving_var = None
    /\ tolerance = None
    /\ result = None
    /\ exception = "none"
    /\ solution = None /\ objective_value = None /\ it = None
    /\ status = "" /\ x = None

Raise(exc) ==
    /\ pc' = "raised"
    /\ exception' = exc

(* RevisedSimplex.__init__ *)
Construct(A, rhs, c, precision) ==
    /\ precision_arg' = precision
    /\ original_A' = A
    /\ b' = rhs
    /\ original_c' = c
    /\ m' = Rows(A)
    /\ n' = Cols(A)
    /\ mp_dps' = IF precision < 1 THEN 1 ELSE precision
    /\ IF Len(c) < Cols(A)
       THEN /\ Raise("IndexError")
            /\ UNCHANGED <<augmented_matrix, new_c, basis, nonbasis>>
       ELSE LET split == transform_unrestricted(A, c)
                slack == add_slack_variables(split[1], split[2])
            IN  /\ augmented_matrix' = slack[1]
                /\ new_c' = slack[2]
                /\ basis' = InitialBasis(split[1])
                /\ nonbasis' = InitialNonbasis(split[1])
                /\ pc' = "Constructed"
                /\ UNCHANGED exception

(* a client constructs a solver on data of its own, of any shapes *)
NewSolver ==
    /\ pc = "start"
    /\ \E rows \in RowCounts, cols \in ColCounts, lb \in RowCounts, lc \in ColCounts :
       \E A \in IntMat(rows, cols, CoefVals), rhs \in IntVec(lb, RhsVals),
          c \in IntVec(lc, CoefVals), precision \in Precisions :
          Construct(ToRMat(A), ToR(rhs), ToR(c), precision)
    /\ caller' = "client"
    /\ UNCHANGED <<max_iterations, loopVars, result, polyVars>>

(* solver = RevisedSimplex(A, b, c): a script with fixed data and defaults *)
NewScriptSolver ==
    /\ pc = "start"
    /\ \E lp \in Scenarios :
          Construct(ToRMat(lp[1]), ToR(lp[2]), ToR(lp[3]), DefaultPrecision)
    /\ caller' = "script"
    /\ UNCHANGED <<max_iterations, loopVars, result, polyVars>>

(* OptimalPolynomial.get_coefs up to the construction of the solver *)
GetCoefs ==
    /\ pc = "start"
    /\ \E prec \in Precisions, num \in 1..MaxNum, deg \in Degrees, ab \in Intervals :
       \E fv \in IntVec(num, FVals), omega_sup \in OmegaVals, omega_inf \in OmegaVals :
          IF num = 1
          THEN /\ mp_dps' = prec
               /\ Raise("ZeroDivisionError")
               /\ UNCHANGED <<lpVars, basis, nonbasis>>
          ELSE LET points == f_linspace(ab[1], ab[2], num)
               IN  Construct(BuilderA(deg, points, omega_sup, omega_inf),
                             BuilderB(fv, points),
                             construct_vector_c(deg), prec)
    /\ caller' = "get_coefs"
    /\ UNCHANGED <<max_iterations, loopVars, result, polyVars>>

(* solve(max_iterations): entry *)
Solve ==
    /\ pc = "Constructed"
    /\ \E k \in IF caller = "client" THEN 1..MaxIterCap ELSE {DefaultMaxIterations} :
          max_iterations' = k
    /\ iteration' = 0
    /\ pc' = "loop"
    /\ UNCHANGED <<caller, mp_dps, lpVars, basis, nonbasis, B_inv, entering_var,
                   min_reduced_cost, leaving_var, tolerance, result, exception,
                   polyVars>>

(* the test written with <= *)
LoopConditionInclusive(iter, cap) == iter <= cap

(* the test of the while loop *)
LoopCondition(iter, cap) == iter < cap

Return(res) ==
    /\ result' = res
    /\ pc' = "returned"
    /\ UNCHANGED exception

(* while iteration < max_iterations fails: the return after the loop *)
LoopExit ==
    /\ pc = "loop"
    /\ ~LoopCondition(iteration, max_iterations)
    /\ Return(<<None, None, "Max iterations reached">>)
    /\ UNCHANGED <<caller, mp_dps, lpVars, basis, nonbasis, max_iterations,
                   loopVars, polyVars>>

(* the optimal return: the folded solution and its cost *)
OptimalResult(Binv) ==
    LET xc == get_original_solution(get_solution(Binv, b, basis, new_c), new_c, n)
    IN  <<xc[1], Dot(xc[2], xc[1]), iteration, "Optimal">>

(* one pass of the loop up to the optimality test *)
SelectEntering ==
    /\ pc = "loop"
    /\ LoopCondition(iteration, max_iterations)
    /\ LET Binv == get_basis_inverse(augmented_matrix, basis)
       IN  IF Binv = << >>
           THEN /\ Raise("ZeroDivisionError")
                /\ UNCHANGED <<B_inv, entering_var, min_reduced_cost, tolerance,
                               result>>
           ELSE LET ev == get_entering_variable(
                            compute_reduced_costs(Binv, augmented_matrix, new_c,
                                                  basis, nonbasis))
                IN  /\ B_inv' = Binv
                    /\ entering_var' = ev[1]
                    /\ min_reduced_cost' = ev[2]
                    /\ tolerance' = <<ToleranceExponent(mp_dps)>>
                    /\ IF IsOptimal(ev[2], mp_dps)
                       THEN IF Len(b) # m
                            THEN Raise("ValueError") /\ UNCHANGED result
                            ELSE Return(OptimalResult(Binv))
                       ELSE /\ pc' = "ratio"
                            /\ UNCHANGED <<result, exception>>
    /\ UNCHANGED <<caller, mp_dps, lpVars, basis, nonbasis, max_iterations,
                   iteration, leaving_var, polyVars>>

(* the ratio test and the unbounded return *)
RatioTest ==
    /\ pc = "ratio"
    /\ IF Len(b) # m
       THEN Raise("ValueError") /\ UNCHANGED <<leaving_var, result>>
       ELSE LET lv == get_leaving_variable(B_inv, augmented_matrix, b, basis,
                                           entering_var[1])
            IN  /\ leaving_var' = lv[1]
                /\ IF lv[1] = None
                   THEN Return(<<None, None, "Unbounded">>)
                   ELSE /\ pc' = "pivot"
                        /\ UNCHANGED <<result, exception>>
    /\ UNCHANGED <<caller, mp_dps, lpVars, basis, nonbasis, max_iterations,
                   iteration, B_inv, entering_var, min_reduced_cost, tolerance,
                   polyVars>>

(* update_basis and the increment that end a pass *)
Pivot ==
    /\ pc = "pivot"
    /\ LET nb == update_basis(basis, nonbasis, entering_var[1], leaving_var[1])
       IN  /\ basis' = nb[1]
           /\ nonbasis' = nb[2]
    /\ iteration' = iteration + 1
    /\ pc' = "loop"
    /\ UNCHANGED <<caller, mp_dps, lpVars, max_iterations, B_inv, entering_var,
                   min_reduced_cost, leaving_var, tolerance, result, exception,
                   polyVars>>

(* get_coefs after solve: the four-way unpacking and the coefficients *)
UnpackResult ==
    /\ pc = "returned"
    /\ caller = "get_coefs"
    /\ IF Len(result) # 4
       THEN Raise("ValueError") /\ UNCHANGED polyVars
       ELSE /\ solution' = result[1]
            /\ objective_value' = result[2]
            /\ it' = <<result[3]>>
            /\ status' = result[4]
            /\ x' = Reverse(Tail(result[1]))
            /\ pc' = "done"
            /\ UNCHANGED exception
    /\ UNCHANGED <<caller, mp_dps, lpVars, basis, nonbasis, max_iterations,
                   loopVars, result>>

Next ==
    \/ NewSolver
    \/ NewScriptSolver
    \/ GetCoefs
    \/ Solve
    \/ LoopExit
    \/ SelectEntering
    \/ RatioTest
    \/ Pivot
    \/ UnpackResult

Spec == Init /\ [][Next]_vars

(* a client constructs another RevisedSimplex or SimplexProblemSetup while  *)
(* this solver waits for its solve call: of that construction only the      *)
(* assignment to mp.mp.dps reaches this solver                              *)
ConstructAnother ==
    /\ pc = "Constructed"
    /\ caller = "client"
    /\ \E other \in Precisions : mp_dps' = IF other < 1 THEN 1 ELSE other
    /\ UNCHANGED <<pc, caller, lpVars, basis, nonbasis, max_iterations, loopVars,
                   result, exception, polyVars>>

NextShared ==
    \/ Next
    \/ ConstructAnother

(* the program with several solvers and builders alive in one process *)
SharedSpec == Init /\ [][NextShared]_vars

(***************************************************************************)
(* Vocabulary of the properties.                                           *)
(***************************************************************************)
Statuses == {"Optimal", "Unbounded", "Max iterations reached"}

Built == pc \in {"Constructed", "loop", "ratio", "pivot", "returned", "done"}

Iterating == pc \in {"loop", "ratio", "pivot"}

ValidLP == Len(b) = Rows(original_A) /\ Len(original_c) = Cols(original_A)

ReturnedStatus == result[Len(result)]

AllColumns == 0..(2 * n + m - 1)

Range(seq) == {seq[i] : i \in 1..Len(seq)}

NoDuplicates(seq) == \A i, j \in 1..Len(seq) : seq[i] = seq[j] => i = j

(* the position of solve within its run: three steps to a pass *)
Rank == 3 * iteration + (IF pc = "loop" THEN 0 ELSE IF pc = "ratio" THEN 1 ELSE 2)

(* C1: on a valid LP and a positive cap, solve terminates within the cap:
   every step of a running solve either returns exactly one of the three
   statuses or advances the run by one position, the run is never longer
   than three positions for each allowed pass, and the number of pivots
   never exceeds the cap (the program is sequential: a running solve always
   takes its next step). *)
C1_SolveTerminatesWithinCap ==
    [][Iterating /\ ValidLP =>
            /\ iteration' <= max_iterations
            /\ max_iterations' = max_iterations
            /\ Rank <= 3 * max_iterations
            /\ \/ /\ pc' = "returned"
                  /\ Cardinality({st \in Statuses : result'[Len(result')] = st}) = 1
               \/ /\ pc' \in {"loop", "ratio", "pivot"}
                  /\ Rank' = Rank + 1]_vars

C1_Witness ==
    /\ pc = "returned"
    /\ ValidLP
    /\ ReturnedStatus = "Max iterations reached"
    /\ iteration = max_iterations
    /\ max_iterations = MaxIterCap

(* C2: whatever the terminal status, solve returns four outputs (solution,
   objective, iteration count, status), solution and objective absent unless
   Optimal, and get_coefs, which unpacks four outputs, does not fail. *)
C2_FourOutputsWhateverStatus ==
    /\ pc \in {"returned", "done"} =>
          /\ Len(result) = 4
          /\ result[4] \in Statuses
          /\ result[3] = iteration
          /\ (result[4] # "Optimal" => result[1] = None /\ result[2] = None)
    /\ (caller = "get_coefs" /\ result # None) => exception = "none"

(* C3: data whose shapes disagree never yield a constructed solver: the
   construction fails with InvalidDimensions. *)
C3_MismatchFailsAtConstruction ==
    (pc # "start" /\ original_A # None /\ ~ValidLP) =>
        /\ ~Built
        /\ ~Iterating
        /\ exception = "InvalidDimensions"

(* b_i - v >= -tolerance, the tolerance of the working precision *)
WithinTolerance(slackness) ==
    LET k == mp_dps \div 2
    IN  IF k <= 9 THEN RLe(<<0 - 1, Pow10(k)>>, slackness) ELSE slackness[1] >= 0

(* C4: a solution returned as Optimal satisfies every original constraint
   row, (A x)_i <= b_i within tolerance, whatever the signs of b. *)
C4_OptimalSatisfiesConstraints ==
    (pc = "returned" /\ ReturnedStatus = "Optimal") =>
        \A i \in 1..m :
            WithinTolerance(RSub(b[i], Dot(original_A[i], result[1])))

(* C5: the bounded LP of the specification, solved with the defaults, ends
   Optimal with x = (4, 2) and objective -10. *)
C5_Scenario1Result ==
    (pc = "returned" /\ caller = "script" /\ original_A = ToRMat(Scenario1[1])) =>
        /\ max_iterations = DefaultMaxIterations
        /\ Len(result) = 4
        /\ result[4] = "Optimal"
        /\ result[1] = <<R(4), R(2)>>
        /\ result[2] = R(0 - 10)

C5_Witness ==
    /\ pc = "returned"
    /\ caller = "script"
    /\ original_A = ToRMat(Scenario1[1])
    /\ b = ToR(Scenario1[2])
    /\ original_c = ToR(Scenario1[3])
    /\ ReturnedStatus = "Optimal"
    /\ iteration > 0

(* C6: from construction on, basis and nonbasis are duplicate-free and
   disjoint, basis has m indices, together they are the 2n + m columns of
   the augmented matrix; a fresh solver has the slack columns as basis. *)
C6_BasisPartition ==
    Built \/ (pc = "raised" /\ basis # None) =>
        /\ NoDuplicates(basis)
        /\ NoDuplicates(nonbasis)
        /\ Range(basis) \cap Range(nonbasis) = {}
        /\ Len(basis) = m
        /\ Range(basis) \cup Range(nonbasis) = AllColumns
        /\ Len(augmented_matrix[1]) = 2 * n + m
        /\ (pc = "Constructed" => basis = [i \in 1..m |-> 2 * n + i - 1])

C6_Witness ==
    /\ pc = "loop"
    /\ iteration >= 2
    /\ Range(basis) # (2 * n)..(2 * n + m - 1)

(* C7: the right-hand side that get_coefs hands to the solver is
   componentwise >= 0. *)
C7_BuilderRhsNonnegative ==
    (caller = "get_coefs" /\ Built) => \A i \in 1..Len(b) : RLe(Zero, b[i])

(* r_j = c_j - c_B^T (B^-1 A_j) for the nonbasic columns, in nonbasis order *)
ReducedCosts ==
    LET Binv == get_basis_inverse(augmented_matrix, basis)
        c_B == List([i \in 1..Len(basis) |-> new_c[basis[i] + 1]])
    IN  List([k \in 1..Len(nonbasis) |->
                RSub(new_c[nonbasis[k] + 1],
                     Dot(c_B, MatVec(Binv, Column(augmented_matrix, nonbasis[k]))))])

(* the first position of a list of numbers that holds its least number *)
FirstMinPosition(r) ==
    MinOf({k \in 1..Len(r) : \A l \in 1..Len(r) : RLe(r[k], r[l])})

(* C8: past the choice of an iteration, the entering variable is the first
   nonbasic index of least reduced cost; the iteration has ended Optimal
   exactly when that cost is >= -tolerance, and otherwise the ratio test is
   made with that index. *)
C8_EnteringRule ==
    (pc \in {"ratio", "pivot"}
       \/ (pc = "returned" /\ ReturnedStatus \in {"Optimal", "Unbounded"})) =>
        LET r == ReducedCosts
            k == FirstMinPosition(r)
        IN  /\ entering_var = <<nonbasis[k]>>
            /\ min_reduced_cost = r[k]
            /\ WithinTolerance(r[k]) <=> (pc = "returned" /\ ReturnedStatus = "Optimal")
            /\ pc = "pivot" =>
                  \E i \in 1..m :
                      /\ leaving_var = <<basis[i]>>
                      /\ RLt(Zero, MatVec(get_basis_inverse(augmented_matrix, basis),
                                          Column(augmented_matrix, nonbasis[k]))[i])

C8_Witness ==
    /\ pc = "ratio"
    /\ iteration >= 1
    /\ \E k, l \in 1..Len(nonbasis) :
          /\ k < l
          /\ entering_var = <<nonbasis[k]>>
          /\ ReducedCosts[l] = min_reduced_cost
          /\ RLt(min_reduced_cost, Zero)

(* C9: a ratio test on a valid LP leaves the basis as it is and either
   chooses as leaving variable the basis index of the first row attaining
   the least b_bar_i / d_i over the rows with d_i > 0, or, no such row
   existing, returns Unbounded with no solution and no objective. *)
C9_LeavingRule ==
    [][(pc = "ratio" /\ Len(b) = m) =>
          LET Binv == get_basis_inverse(augmented_matrix, basis)
              d == MatVec(Binv, Column(augmented_matrix, entering_var[1]))
              b_bar == MatVec(Binv, b)
              pos == {i \in 1..m : RLt(Zero, d[i])}
              least == {i \in pos : \A l \in pos :
                           RLe(RDiv(b_bar[i], d[i]), RDiv(b_bar[l], d[l]))}
          IN  /\ basis' = basis
              /\ nonbasis' = nonbasis
              /\ IF pos = {}
                 THEN /\ pc' = "returned"
                      /\ result'[Len(result')] = "Unbounded"
                      /\ result'[1] = None
                      /\ result'[2] = None
                 ELSE /\ pc' = "pivot"
                      /\ leaving_var' = <<basis[MinOf(least)]>>]_vars

C9_Witness ==
    /\ pc = "pivot"
    /\ iteration >= 1
    /\ LET d == MatVec(B_inv, Column(augmented_matrix, entering_var[1]))
           b_bar == MatVec(B_inv, b)
       IN  \E i, l \in 1..m :
              /\ i < l
              /\ leaving_var = <<basis[i]>>
              /\ RLt(Zero, d[i])
              /\ RLt(Zero, d[l])
              /\ RDiv(b_bar[i], d[i]) = RDiv(b_bar[l], d[l])

(* C10: a pivot puts the entering index at the leaving index's place in
   basis, takes it out of nonbasis and puts the leaving index in, every other
   member keeping its side; no other step of solve touches basis or
   nonbasis, and no step after construction changes the augmented matrix,
   the extended costs, b, or the original A and c. *)
C10_PivotFrame ==
    [][/\ pc = "pivot" =>
            LET e == entering_var[1]
                l == leaving_var[1]
            IN  /\ basis' = [basis EXCEPT ![IndexOf(basis, l)] = e]
                /\ Range(nonbasis') = (Range(nonbasis) \ {e}) \cup {l}
                /\ Len(nonbasis') = Len(nonbasis)
                /\ e \in Range(nonbasis) /\ l \in Range(basis)
       /\ (Built /\ pc # "pivot") => (basis' = basis /\ nonbasis' = nonbasis)
       /\ Built =>
            /\ augmented_matrix' = augmented_matrix
            /\ new_c' = new_c
            /\ b' = b
            /\ original_A' = original_A
            /\ original_c' = original_c]_vars

C10_Witness ==
    /\ pc = "returned"
    /\ iteration >= 2
    /\ basis[1] < 2 * n

(* C11: whenever solve has computed its tolerance, it is 10^-floor(p/2) for
   the precision p given to this solver's constructor, whatever was
   constructed between this solver's construction and its solve call. *)
C11_ToleranceOfOwnPrecision ==
    (Built /\ tolerance # None) => tolerance = <<precision_arg \div 2>>

(* the basic solution B^-1 b of a basis, computed as solve computes it *)
BasicSolution(bas) == MatVec(get_basis_inverse(augmented_matrix, bas), b)

(* the objective value c_B^T B^-1 b of a basis *)
Objective(bas) ==
    Dot(List([i \in 1..Len(bas) |-> new_c[bas[i] + 1]]), BasicSolution(bas))

Invertible(bas) == get_basis_inverse(augmented_matrix, bas) # << >>

Nonnegative(v) == \A i \in 1..Len(v) : RLe(Zero, v[i])

(* C12: when b >= 0 componentwise and the basis matrices met are invertible,
   the basic solution B^-1 b is componentwise >= 0 in every state of solve,
   from the initial slack basis on and after every pivot, and the objective
   c_B^T B^-1 b of the next state is never above that of the current one. *)
C12_FeasibleAndNonincreasing ==
    [][(Iterating /\ Len(b) = m /\ Nonnegative(b) /\ Invertible(basis)) =>
          /\ Nonnegative(BasicSolution(basis))
          /\ Invertible(basis') =>
                /\ Nonnegative(BasicSolution(basis'))
                /\ RLe(Objective(basis'), Objective(basis))]_vars

C12_Witness ==
    /\ pc = "loop"
    /\ iteration >= 2
    /\ Len(b) = m
    /\ Nonnegative(b)
    /\ Invertible(basis)
    /\ Nonnegative(BasicSolution(basis))
    /\ RLt(Objective(basis), Zero)
    /\ \E i \in 1..m : BasicSolution(basis)[i] = Zero

====
